---- MODULE Spec2Model ----
(***************************************************************************)
(* frugalpromproxy (src/main.go): a proxy that re-exposes a Prometheus     *)
(* exposition payload without the series whose value did not change        *)
(* recently.  One ScrapeTarget per port pair; its handler fetches the      *)
(* upstream body, parses it, updates the per-series unchanged counters and *)
(* serializes the series that are still live.                              *)
(***************************************************************************)
EXTENDS Integers, Sequences, FiniteSets, TLC

(***************************************************************************)
(* Bounds of the model.                                                    *)
(***************************************************************************)

\* main.go:24 sets staleThreshold to 240.  The handler is uniform in the
\* constant (it is only assigned and compared), so the model runs it with a
\* small threshold; every formula below is stated in terms of staleThreshold.
staleThreshold == 1

\* The unchanged counter is an int64 that grows without limit while a value
\* repeats; the model stops a repetition at staleThreshold + MaxExtra.
MaxExtra == 2

MaxCounter == staleThreshold + MaxExtra

\* main.go:25
startStale == TRUE

(***************************************************************************)
(* MetricType (main.go:27-35) and typeText (main.go:37-43).                *)
(***************************************************************************)
histogram == 0
summary == 1
untyped == 2
counter == 3
gauge == 4

\* the names in alphabetical order, indexed by the enum all the same
MutTypeTextAlphabetical(t) ==
  CASE t = histogram -> "counter"
    [] t = summary -> "gauge"
    [] t = untyped -> "histogram"
    [] t = counter -> "summary"
    [] t = gauge -> "untyped"

typeText(t) ==
  CASE t = histogram -> "histogram"
    [] t = summary -> "summary"
    [] t = untyped -> "untyped"
    [] t = counter -> "counter"
    [] t = gauge -> "gauge"

(***************************************************************************)
(* float64 values.  A float is a number or NaN; Go's != on floats makes    *)
(* NaN different from every value, itself included.                        *)
(***************************************************************************)
F(n) == [nan |-> FALSE, n |-> n]
NaN == [nan |-> TRUE, n |-> 0]

FloatNeq(a, b) == a.nan \/ b.nan \/ a.n # b.n

\* strconv.ParseFloat on the value texts the model feeds (main.go:85).
\* "1e+999" matches linePattern and is out of range: err # nil.
ParseErr == [nan |-> TRUE, n |-> 1]
ParseFloat(text) ==
  CASE text = "0" -> F(0)
    [] text = "5" -> F(5)
    [] text = "5.0" -> F(5)
    [] text = "NaN" -> NaN
    [] OTHER -> ParseErr

\* fmt.Sprintln's rendering of a float64 (%v), main.go:185,187.
FormatFloat(v) == IF v.nan THEN "NaN" ELSE ToString(v.n)

(***************************************************************************)
(* Lines of exposition text.  A line is kept as the fields the three       *)
(* regular expressions of main.go:203-205 capture.  The optional timestamp *)
(* of a sample line is captured and never read; it is left out, as is a    *)
(* label block in the name of a TYPE or HELP line.                         *)
(***************************************************************************)
Names == {"foo", "bar"}
LabelsOf(n) == IF n = "foo" THEN {"", "a=1"} ELSE {""}
AllLabels == UNION {LabelsOf(n) : n \in Names}
Series == {s \in Names \X AllLabels : s[2] \in LabelsOf(s[1])}

ValueTexts == {"0", "5", "5.0", "NaN", "1e+999"}
TypeKeywords == {"counter", "gauge", "histogram", "summary", "untyped"}

SampleLine(n, l, t) == [kind |-> "sample", name |-> n, label |-> l, text |-> t]
TypeLine(n, k) == [kind |-> "type", name |-> n, label |-> "", text |-> k]
HelpLine(n, h) == [kind |-> "help", name |-> n, label |-> "", text |-> h]

\* linePattern, typePattern, helpPattern (main.go:203-205)
linePattern(line) == line.kind = "sample" /\ line.text \in ValueTexts
typePattern(line) == line.kind = "type" /\ line.text \in TypeKeywords
helpPattern(line) == line.kind = "help"

(***************************************************************************)
(* Go maps.  A map is a function on the set of its keys; reading a missing *)
(* key yields the zero value.  The handler never builds an empty non-nil   *)
(* label map (the make of main.go:88 is followed by the insert of line 94),*)
(* so the nil map is the map without keys.                                 *)
(***************************************************************************)
ZeroLabelSet == [value |-> F(0), unchangedCounter |-> 0]
NilMap == [l \in {} |-> ZeroLabelSet]
\* a family without a recognized declaration taken as untyped
MutZeroMetricDataUntyped == [commentType |-> untyped, commentHelp |-> "", label |-> NilMap]

\* main.go:50-54 with main.go:29: the zero MetricType is histogram.
ZeroMetricData == [commentType |-> histogram, commentHelp |-> "", label |-> NilMap]
EmptyData == [n \in {} |-> ZeroMetricData]

Put(m, k, v) == [x \in (DOMAIN m) \cup {k} |-> IF x = k THEN v ELSE m[x]]
GetMetric(m, n) == IF n \in DOMAIN m THEN m[n] ELSE ZeroMetricData
GetLabel(m, l) == IF l \in DOMAIN m THEN m[l] ELSE ZeroLabelSet

(***************************************************************************)
(* The parser loop (main.go:79-127).                                       *)
(***************************************************************************)
ParseSample(data, line) ==
  IF linePattern(line) /\ ParseFloat(line.text) # ParseErr
  THEN LET md == GetMetric(data, line.name)
           x == [GetLabel(md.label, line.label) EXCEPT !.value = ParseFloat(line.text)]
       IN Put(data, line.name, [md EXCEPT !.label = Put(md.label, line.label, x)])
  ELSE data

ParseType(data, line) ==
  IF typePattern(line)
  THEN LET metricType == CASE line.text = "counter" -> counter
                           [] line.text = "gauge" -> gauge
                           [] line.text = "histogram" -> histogram
                           [] line.text = "summary" -> summary
                           [] line.text = "untyped" -> untyped
       IN Put(data, line.name, [GetMetric(data, line.name) EXCEPT !.commentType = metricType])
  ELSE data

ParseHelp(data, line) ==
  IF helpPattern(line)
  THEN Put(data, line.name, [GetMetric(data, line.name) EXCEPT !.commentHelp = line.text])
  ELSE data

ParseLine(data, line) == ParseHelp(ParseType(ParseSample(data, line), line), line)

RECURSIVE ParseFrom(_, _)
ParseFrom(data, lines) ==
  IF lines = <<>> THEN data
  ELSE ParseFrom(ParseLine(data, Head(lines)), Tail(lines))

Parse(body) == ParseFrom(EmptyData, body)

(***************************************************************************)
(* The tracker update (main.go:129-168).                                   *)
(***************************************************************************)

\* the two policies of main.go:140-146 taken for one another
MutInitialCounterSwapped == IF startStale THEN -1 ELSE staleThreshold

\* main.go:140-146: the counter a label gets when its family is first stored
InitialCounter == IF startStale THEN staleThreshold ELSE -1

\* main.go:139-148: content as stored at the first sight of its family
InitFamily(content) ==
  [content EXCEPT !.label =
     [l \in DOMAIN content.label |->
        [content.label[l] EXCEPT !.unchangedCounter = InitialCounter]]]

\* a change of value that does not reset the counter
MutUnchangedCheckNoReset(x, value) ==
  [x EXCEPT !.unchangedCounter = x.unchangedCounter + 1]

\* main.go:153-166 for one label: x is scrapeTarget.data[name].label[label],
\* value is content.label[label].value.  The stored value is left as it is.
UnchangedCheck(x, value) ==
  IF FloatNeq(x.value, value)
  THEN [x EXCEPT !.unchangedCounter = 0]
  ELSE [x EXCEPT !.unchangedCounter = x.unchangedCounter + 1]

\* main.go:157,164: y.label[label] = x on the nil map of a family that was
\* stored without a sample (main.go:148) panics.
Panics(st, name, content) ==
  /\ name \in DOMAIN st
  /\ DOMAIN st[name].label = {}
  /\ DOMAIN content.label # {}

PanicNames(st, data) == {n \in DOMAIN data : Panics(st, n, data[n])}

\* the stored label map replaced by the one of the payload: the records of
\* the labels that the payload lacks are dropped
MutUpdateFamilyReplace(st, name, content) ==
  LET st1 == IF name \in DOMAIN st THEN st ELSE Put(st, name, InitFamily(content))
      y == st1[name]
      label == [l \in DOMAIN content.label |->
                  UnchangedCheck(GetLabel(y.label, l), content.label[l].value)]
  IN Put(st1, name, [y EXCEPT !.label = label])

\* the unchanged check made once for the family: a change of any of its
\* labels resets the counter of every label of the payload
MutUpdateFamilyPerFamily(st, name, content) ==
  LET st1 == IF name \in DOMAIN st THEN st ELSE Put(st, name, InitFamily(content))
      y == st1[name]
      anyChanged == \E l \in DOMAIN content.label :
                      FloatNeq(GetLabel(y.label, l).value, content.label[l].value)
      label == [l \in (DOMAIN y.label) \cup (DOMAIN content.label) |->
                  IF l \in DOMAIN content.label
                  THEN [GetLabel(y.label, l) EXCEPT !.unchangedCounter =
                          IF anyChanged THEN 0 ELSE @ + 1]
                  ELSE y.label[l]]
  IN Put(st1, name, [y EXCEPT !.label = label])

\* main.go:129-168, one iteration of the outer loop
UpdateFamily(st, name, content) ==
  LET st1 == IF name \in DOMAIN st THEN st ELSE Put(st, name, InitFamily(content))
      y == st1[name]
      label == [l \in (DOMAIN y.label) \cup (DOMAIN content.label) |->
                  IF l \in DOMAIN content.label
                  THEN UnchangedCheck(GetLabel(y.label, l), content.label[l].value)
                  ELSE y.label[l]]
  IN Put(st1, name, [y EXCEPT !.label = label])

\* The outer loop over the families in names; an iteration touches its own
\* family only, so the order of the range does not show in the result.
UpdateAll(st, data, names) ==
  [n \in (DOMAIN st) \cup names |->
     IF n \in names THEN UpdateFamily(st, n, data[n])[n] ELSE st[n]]

\* main.go:148: the family stored at first sight shares its label map with
\* the handler's local data, so the local map shows the counters written.
Aliased(st, stNew, data, names) ==
  [n \in DOMAIN data |->
     IF n \in names /\ n \notin DOMAIN st
     THEN [data[n] EXCEPT !.label = stNew[n].label]
     ELSE data[n]]

(***************************************************************************)
(* The serializer loop (main.go:170-199).  Go ranges over a map in an      *)
(* unspecified order: the order of the families and of each family's       *)
(* labels is an input.                                                     *)
(***************************************************************************)
Orders(S) ==
  {s \in [1..Cardinality(S) -> S] : \A i, j \in 1..Cardinality(S) : i # j => s[i] # s[j]}

\* main.go:182
\* a counter equal to the threshold taken as stale
MutIsActiveStrict(st, name, l) ==
  GetLabel(GetMetric(st, name).label, l).unchangedCounter < staleThreshold

\* main.go:182
IsActive(st, name, l) ==
  GetLabel(GetMetric(st, name).label, l).unchangedCounter <= staleThreshold

\* only the first of the two unsupported types skipped
MutUnsupportedHistogramOnly(content) == content.commentType = histogram

\* main.go:172-177
Unsupported(content) ==
  content.commentType = histogram \/ content.commentType = summary

\* the stored value written instead of the one of the payload
MutSampleTextStored(st, name, content, l) ==
  SampleLine(name, l, FormatFloat(GetLabel(GetMetric(st, name).label, l).value))

\* main.go:185,187: the value written is the one of the current payload.
\* A line with label "" stands for `name value`, any other for `name{label} value`.
SampleText(st, name, content, l) ==
  SampleLine(name, l, FormatFloat(content.label[l].value))

RECURSIVE LabelText(_, _, _, _)
LabelText(st, name, content, order) ==
  IF order = <<>> THEN <<>>
  ELSE (IF IsActive(st, name, Head(order))
        THEN <<SampleText(st, name, content, Head(order))>>
        ELSE <<>>) \o LabelText(st, name, content, Tail(order))

\* the preamble written whether a label is active or not
MutPreambleAlways(name, content, isAnyLabelActive) ==
  <<HelpLine(name, content.commentHelp),
    TypeLine(name, typeText(content.commentType))>>

\* main.go:192-195
Preamble(name, content, isAnyLabelActive) ==
  IF isAnyLabelActive
  THEN <<HelpLine(name, content.commentHelp),
         TypeLine(name, typeText(content.commentType))>>
  ELSE <<>>

\* main.go:171-197, one iteration of the outer loop
FamilyText(st, name, content, order) ==
  IF Unsupported(content) THEN <<>>
  ELSE LET labelText == LabelText(st, name, content, order)
       IN Preamble(name, content, labelText # <<>>) \o labelText

RECURSIVE SerializeFrom(_, _, _, _)
SerializeFrom(st, data, famOrder, labOrder) ==
  IF famOrder = <<>> THEN <<>>
  ELSE FamilyText(st, Head(famOrder), data[Head(famOrder)], labOrder[Head(famOrder)])
         \o SerializeFrom(st, data, Tail(famOrder), labOrder)

Serialize(st, data, famOrder, labOrder) == SerializeFrom(st, data, famOrder, labOrder)

LabelSeqs == UNION {Orders(S) : S \in SUBSET AllLabels}
LabelOrders(data) ==
  {f \in [DOMAIN data -> LabelSeqs] : \A n \in DOMAIN data : f[n] \in Orders(DOMAIN data[n].label)}

(***************************************************************************)
(* Upstream bodies.  An upstream is described by its catalog: the series   *)
(* it exposes, the ways it declares a family, and the value texts it       *)
(* writes.  A body omits a family, or holds its declaration followed by a  *)
(* sample line for some of its series.                                     *)
(***************************************************************************)
Catalogs ==
  { [series |-> {<<"foo", "">>, <<"foo", "a=1">>},
     preambles |-> {"none", "gauge", "summary", "bogus"},
     texts |-> {"0", "5", "NaN"}],
    [series |-> {<<"foo", "">>, <<"bar", "">>},
     preambles |-> {"gauge"},
     texts |-> {"0", "5", "5.0", "1e+999"}] }

PreambleLines(n, p) ==
  CASE p = "none" -> <<>>
    [] p = "gauge" -> <<HelpLine(n, "desc"), TypeLine(n, "gauge")>>
    [] p = "summary" -> <<HelpLine(n, "desc"), TypeLine(n, "summary")>>
    [] p = "bogus" -> <<TypeLine(n, "bogus")>>

Absent == "absent"
CatalogLabels(cat, n) == {l \in LabelsOf(n) : <<n, l>> \in cat.series}

SampleLines(n, samples) ==
  LET order == CHOOSE o \in Orders(DOMAIN samples) : TRUE
      present == SelectSeq(order, LAMBDA l : samples[l] # Absent)
  IN [i \in 1..Len(present) |-> SampleLine(n, present[i], samples[present[i]])]

FamilyBodies(cat, n) ==
  IF CatalogLabels(cat, n) = {} THEN {<<>>}
  ELSE {<<>>} \cup
       {PreambleLines(n, p) \o SampleLines(n, samples) :
          p \in cat.preambles, samples \in [CatalogLabels(cat, n) -> cat.texts \cup {Absent}]}

Bodies(cat) == {a \o b : a \in FamilyBodies(cat, "foo"), b \in FamilyBodies(cat, "bar")}

(***************************************************************************)
(* State.                                                                  *)
(***************************************************************************)
VARIABLES
  catalog,        \* the series the upstream exposes
  running,        \* the process has not exited
  store,          \* scrapeTarget.data
  pc,             \* where the handler of the request in flight is
  data,           \* the handler's local data (main.go:73)
  metricOutput,   \* the handler's local metricOutput (main.go:170)
  watched,        \* the series whose history hist records
  hist,           \* what the tracker update has observed of the watched series
  cpc,            \* per concurrent handler: where it is
  cdata,          \* per concurrent handler: its local data
  todo,           \* per concurrent handler: the series its update has yet to range over
  cur,            \* per concurrent handler: the series of its current iteration
  cx,             \* per concurrent handler: its local x (main.go:155,162)
  cout,           \* per concurrent handler: its local metricOutput
  store0,         \* scrapeTarget.data when the concurrent requests arrived
  status,         \* resp.StatusCode of the upstream answer (main.go:62)
  body,           \* the handler's local stringBody (main.go:71)
  tstore,         \* with several port pairs: each target's scrapeTarget.data
  tpc,            \* with several port pairs: where each target's handler is
  tdata,          \* with several port pairs: each handler's local data
  tout            \* with several port pairs: each handler's local metricOutput

cvars == <<cpc, cdata, todo, cur, cx, cout, store0>>
tvars == <<tstore, tpc, tdata, tout>>
vars == <<catalog, running, store, pc, data, metricOutput, watched, hist,
          status, body, cvars, tvars>>

\* main.go:219-225 starts one listener, and so one ScrapeTarget, per port pair.
Targets == {1, 2}

\* net/http serves every request in a goroutine of its own (main.go:236-237);
\* the model follows two requests that are in flight together.
Handlers == {1, 2}
NoSeries == <<"", "">>

(***************************************************************************)
(* hist records, for the watched series, the value at the last tracker     *)
(* observation (an iteration of main.go:152-167 for its label), the number *)
(* of observations in a row that had this value (0: never observed,        *)
(* counted up to RunCap), and whether every observation since the first    *)
(* had it: "family" when the first observation was in the scrape that      *)
(* stored the family, "label" when the family was stored before, "no" once *)
(* the value has changed.                                                  *)
(***************************************************************************)
RunCap == MaxCounter + 1
NoHist == [last |-> F(0), run |-> 0, first |-> "no"]

ObserveSeries(h, familyKnown, value) ==
  IF h.run = 0
  THEN [last |-> value, run |-> 1, first |-> IF familyKnown THEN "label" ELSE "family"]
  ELSE IF h.last = value
  THEN [h EXCEPT !.run = IF h.run < RunCap THEN h.run + 1 ELSE RunCap]
  ELSE [last |-> value, run |-> 1, first |-> "no"]

Observe(h, s, st, d, names) ==
  IF s[1] \in names /\ s[2] \in DOMAIN d[s[1]].label
  THEN ObserveSeries(h, s[1] \in DOMAIN st, d[s[1]].label[s[2]].value)
  ELSE h

\* The counters the update would write stay within the model's bound.
WithinBound(st) ==
  \A n \in DOMAIN st : \A l \in DOMAIN st[n].label :
     st[n].label[l].unchangedCounter <= MaxCounter

InitHandlers ==
  /\ cpc = [h \in Handlers |-> "idle"]
  /\ cdata = [h \in Handlers |-> EmptyData]
  /\ todo = [h \in Handlers |-> {}]
  /\ cur = [h \in Handlers |-> NoSeries]
  /\ cx = [h \in Handlers |-> ZeroLabelSet]
  /\ cout = [h \in Handlers |-> <<>>]
  /\ store0 = EmptyData
  /\ tstore = [t \in Targets |-> EmptyData]
  /\ tpc = [t \in Targets |-> "idle"]
  /\ tdata = [t \in Targets |-> EmptyData]
  /\ tout = [t \in Targets |-> <<>>]

Init ==
  /\ catalog \in Catalogs
  /\ InitHandlers
  /\ watched \in catalog.series
  /\ running = TRUE
  /\ store = EmptyData          \* main.go:234
  /\ pc = "idle"
  /\ data = EmptyData
  /\ metricOutput = <<>>
  /\ status = "none"
  /\ body = <<>>
  /\ hist = NoHist

\* main.go:61-199 for a request whose upstream fetch succeeds and whose
\* update does not panic: parse, update, serialize.
Scrape(code, text) ==
  /\ running /\ pc = "idle" /\ \A h \in Handlers : cpc[h] = "idle"
  /\ status' = code
  /\ body' = text
  /\ LET d == Parse(text)
         st == UpdateAll(store, d, DOMAIN d)
     IN /\ PanicNames(store, d) = {}
        /\ WithinBound(st)
        /\ store' = st
        /\ data' = Aliased(store, st, d, DOMAIN d)
        /\ hist' = Observe(hist, watched, store, d, DOMAIN d)
        /\ \E famOrder \in Orders(DOMAIN d), labOrder \in LabelOrders(d) :
              metricOutput' = Serialize(st, data', famOrder, labOrder)
  /\ pc' = "respond"
  /\ UNCHANGED <<catalog, running, watched, cvars, tvars>>

\* main.go:61-168 for a request whose update panics (main.go:157,164): the
\* families ranged over before the panicking one are updated, nothing is
\* written to the response.
ScrapePanic(code, text) ==
  /\ running /\ pc = "idle" /\ \A h \in Handlers : cpc[h] = "idle"
  /\ status' = code
  /\ body' = text
  /\ LET d == Parse(text)
         bad == PanicNames(store, d)
     IN /\ bad # {}
        /\ \E done \in SUBSET ((DOMAIN d) \ bad) :
             LET st == UpdateAll(store, d, done)
             IN /\ WithinBound(st)
                /\ store' = st
                /\ data' = Aliased(store, st, d, done)
                /\ hist' = Observe(hist, watched, store, d, done)
  /\ metricOutput' = <<>>
  /\ pc' = "panicked"
  /\ UNCHANGED <<catalog, running, watched, cvars, tvars>>

\* main.go:199-200: the response is written and the handler returns.
Respond ==
  /\ running /\ pc = "respond"
  /\ pc' = "idle"
  /\ data' = EmptyData
  /\ metricOutput' = <<>>
  /\ status' = "none"
  /\ body' = <<>>
  /\ UNCHANGED <<catalog, running, store, watched, hist, cvars, tvars>>

\* net/http recovers the handler's panic and drops the connection.
Recover ==
  /\ running /\ pc = "panicked"
  /\ pc' = "idle"
  /\ data' = EmptyData
  /\ metricOutput' = <<>>
  /\ status' = "none"
  /\ body' = <<>>
  /\ UNCHANGED <<catalog, running, store, watched, hist, cvars, tvars>>

\* main.go:62-69: http.Get or ReadAll fails, log.Fatalln exits the process.
FetchFail ==
  /\ running /\ pc = "idle"
  /\ running' = FALSE
  /\ pc' = "fatal"
  /\ UNCHANGED <<catalog, store, data, metricOutput, watched, hist, status, body, cvars, tvars>>

Next ==
  \/ \E text \in Bodies(catalog) : Scrape("200", text)
  \/ \E text \in Bodies(catalog) : ScrapePanic("200", text)
  \/ Respond
  \/ Recover
  \/ FetchFail

\* Requests served one after the other, as a collector scraping at its
\* interval sends them.
Spec == Init /\ [][Next]_vars

(***************************************************************************)
(* Two requests in flight on one target.  The handler takes no lock        *)
(* (main.go:61-200), so the statements of the two goroutines interleave.   *)
(* The requests followed here arrive together at a target that already     *)
(* stores the families of their payloads, so that no label map is shared   *)
(* between a handler's local data and the store (main.go:148) while they   *)
(* run; each step below is a block of statements run without interruption, *)
(* which is one of the schedules the runtime can produce.                  *)
(***************************************************************************)
ConcCatalog ==
  [series |-> {<<"foo", "">>}, preambles |-> {"gauge"}, texts |-> {"0", "5"}]

InitConc ==
  /\ catalog = ConcCatalog
  /\ InitHandlers
  /\ watched \in catalog.series
  /\ running = TRUE
  /\ store = EmptyData
  /\ pc = "idle"
  /\ data = EmptyData
  /\ metricOutput = <<>>
  /\ status = "none"
  /\ body = <<>>
  /\ hist = NoHist

SeriesOf(d) == {s \in Series : s[1] \in DOMAIN d /\ s[2] \in DOMAIN d[s[1]].label}

\* main.go:61-127 in both goroutines: fetch and parse.
ConcBegin(body1, body2) ==
  /\ running /\ pc = "idle" /\ \A h \in Handlers : cpc[h] = "idle"
  /\ LET d == [h \in Handlers |-> IF h = 1 THEN Parse(body1) ELSE Parse(body2)]
     IN /\ \A h \in Handlers :
             /\ DOMAIN d[h] \subseteq DOMAIN store
             /\ PanicNames(store, d[h]) = {}
        /\ cdata' = d
        /\ todo' = [h \in Handlers |-> SeriesOf(d[h])]
  /\ cpc' = [h \in Handlers |-> "range"]
  /\ store0' = store
  /\ UNCHANGED <<catalog, running, store, pc, data, metricOutput, watched, hist, cur, cx, cout>>
  /\ UNCHANGED <<status, body, tvars>>

\* main.go:152-156 or 152-153,161-163: the next label of the range, the
\* comparison, the read of y and x and the change of x.unchangedCounter.
ConcRead(h) ==
  /\ running /\ cpc[h] = "range" /\ todo[h] # {}
  /\ \E s \in todo[h] :
       LET x == GetLabel(GetMetric(store, s[1]).label, s[2])
       IN /\ cur' = [cur EXCEPT ![h] = s]
          /\ cx' = [cx EXCEPT ![h] = UnchangedCheck(x, cdata[h][s[1]].label[s[2]].value)]
          /\ cx'[h].unchangedCounter <= MaxCounter
          /\ todo' = [todo EXCEPT ![h] = todo[h] \ {s}]
          /\ hist' = IF s = watched
                     THEN ObserveSeries(hist, TRUE, cdata[h][s[1]].label[s[2]].value)
                     ELSE hist
  /\ cpc' = [cpc EXCEPT ![h] = "write"]
  /\ UNCHANGED <<catalog, running, store, pc, data, metricOutput, watched, cdata, cout, store0>>
  /\ UNCHANGED <<status, body, tvars>>

\* main.go:157-158 or 164-165: y.label[label] = x; scrapeTarget.data[name] = y
ConcWrite(h) ==
  /\ running /\ cpc[h] = "write"
  /\ LET n == cur[h][1]
         y == store[n]
     IN store' = Put(store, n, [y EXCEPT !.label = Put(y.label, cur[h][2], cx[h])])
  /\ cpc' = [cpc EXCEPT ![h] = "range"]
  /\ UNCHANGED <<catalog, running, pc, data, metricOutput, watched, hist, cdata, todo, cur, cx, cout, store0>>
  /\ UNCHANGED <<status, body, tvars>>

\* main.go:170-198: the serializer loop, reading the store as it is now.
ConcSerialize(h) ==
  /\ running /\ cpc[h] = "range" /\ todo[h] = {}
  /\ \E famOrder \in Orders(DOMAIN cdata[h]), labOrder \in LabelOrders(cdata[h]) :
       cout' = [cout EXCEPT ![h] = Serialize(store, cdata[h], famOrder, labOrder)]
  /\ cpc' = [cpc EXCEPT ![h] = "done"]
  /\ UNCHANGED <<catalog, running, store, pc, data, metricOutput, watched, hist, cdata, todo, cur, cx, store0>>
  /\ UNCHANGED <<status, body, tvars>>

\* main.go:199-200 in both goroutines: the responses are written, the
\* handlers return.
ConcEnd ==
  /\ running /\ \A h \in Handlers : cpc[h] = "done"
  /\ cpc' = [h \in Handlers |-> "idle"]
  /\ cdata' = [h \in Handlers |-> EmptyData]
  /\ todo' = [h \in Handlers |-> {}]
  /\ cur' = [h \in Handlers |-> NoSeries]
  /\ cx' = [h \in Handlers |-> ZeroLabelSet]
  /\ cout' = [h \in Handlers |-> <<>>]
  /\ store0' = EmptyData
  /\ UNCHANGED <<catalog, running, store, pc, data, metricOutput, watched, hist>>
  /\ UNCHANGED <<status, body, tvars>>

\* The two goroutines access scrapeTarget.data and its label maps without
\* synchronisation: when one writes a map while the other is in its update
\* or serializer loop, the Go runtime may detect it and end the process
\* ("fatal error: concurrent map writes").
ConcFault ==
  /\ running
  /\ \E h, g \in Handlers :
       h # g /\ cpc[h] = "write" /\ cpc[g] \in {"range", "write"}
  /\ running' = FALSE
  /\ UNCHANGED <<catalog, store, pc, data, metricOutput, watched, hist, status, body, cvars, tvars>>

NextConc ==
  \/ \E text \in Bodies(catalog) : Scrape("200", text)
  \/ Respond
  \/ \E body1, body2 \in Bodies(catalog) : ConcBegin(body1, body2)
  \/ \E h \in Handlers : ConcRead(h)
  \/ \E h \in Handlers : ConcWrite(h)
  \/ \E h \in Handlers : ConcSerialize(h)
  \/ ConcEnd
  \/ ConcFault

SpecConc == InitConc /\ [][NextConc]_vars

(***************************************************************************)
(* Vocabulary of the properties.  They are read in the state in which the  *)
(* handler is about to write its response (pc = "respond"): data is the    *)
(* parsed payload of this scrape, metricOutput its output, store the       *)
(* records after its update.                                               *)
(***************************************************************************)
InData(s) == s[1] \in DOMAIN data /\ s[2] \in DOMAIN data[s[1]].label
HasRecord(s) == s[1] \in DOMAIN store /\ s[2] \in DOMAIN store[s[1]].label
StoredRecord(s) == GetLabel(GetMetric(store, s[1]).label, s[2])
Supported(n) == data[n].commentType \in {counter, gauge, untyped}

LinesOf(n) == {i \in DOMAIN metricOutput : metricOutput[i].name = n}
SamplesOf(s) ==
  {i \in LinesOf(s[1]) : metricOutput[i].kind = "sample" /\ metricOutput[i].label = s[2]}
HelpsOf(n) == {i \in LinesOf(n) : metricOutput[i].kind = "help"}
TypesOf(n) == {i \in LinesOf(n) : metricOutput[i].kind = "type"}
Emitted(s) == SamplesOf(s) # {}

\* the series of family n in this payload whose counter is within the threshold
LiveLabels(n) ==
  {l \in DOMAIN data[n].label : StoredRecord(<<n, l>>).unchangedCounter <= staleThreshold}

\* the watched series was observed before and has, in this scrape, a value
\* other than at its previous observation
Changed == hist.first = "no" /\ hist.run = 1

\* C1: a series observed with the same value on staleThreshold+2 or more
\* scrapes in a row is omitted from the output of the last of them.
C1_RepeatedValueIsOmitted ==
  (pc = "respond" /\ InData(watched) /\ ~hist.last.nan /\ hist.run >= staleThreshold + 2)
    => ~Emitted(watched)

\* C2: a known series of a counter, gauge or untyped family whose value
\* differs from the one of its previous observation is emitted in this scrape.
C2_ChangedSeriesIsEmitted ==
  (pc = "respond" /\ InData(watched) /\ Supported(watched[1]) /\ Changed)
    => Emitted(watched)

\* the value changed back to the stored one: the counter is 1, not 0
C2_Witness ==
  /\ pc = "respond" /\ InData(watched) /\ Supported(watched[1]) /\ Changed
  /\ StoredRecord(watched).unchangedCounter = 1
  /\ Emitted(watched)

\* C3: every sample line of the output is a series of this scrape's payload
\* and carries the value parsed from it.
C3_OutputFromPayload ==
  pc = "respond" =>
    \A i \in DOMAIN metricOutput :
      metricOutput[i].kind = "sample" =>
        /\ InData(<<metricOutput[i].name, metricOutput[i].label>>)
        /\ metricOutput[i].text =
             FormatFloat(data[metricOutput[i].name].label[metricOutput[i].label].value)

\* an emitted series whose stored value is another one, beside a record that
\* is within the threshold and whose series is not in the payload
C3_Witness ==
  /\ pc = "respond" /\ Emitted(watched)
  /\ StoredRecord(watched).value # data[watched[1]].label[watched[2]].value
  /\ \E s \in catalog.series :
       /\ HasRecord(s) /\ ~InData(s)
       /\ StoredRecord(s).unchangedCounter <= staleThreshold

\* C4: a counter, gauge or untyped family has its HELP and its TYPE line in
\* the output exactly when one of its series is live in this scrape, and no
\* line at all otherwise.
C4_PreambleIffLive ==
  pc = "respond" =>
    \A n \in DOMAIN data :
      Supported(n) =>
        IF LiveLabels(n) # {}
        THEN Cardinality(HelpsOf(n)) = 1 /\ Cardinality(TypesOf(n)) = 1
        ELSE LinesOf(n) = {}

\* one family with a live series beside one whose series are all stale
C4_Witness ==
  /\ pc = "respond"
  /\ \E n, m \in DOMAIN data :
       /\ Supported(n) /\ Supported(m)
       /\ LiveLabels(n) # {} /\ HelpsOf(n) # {} /\ TypesOf(n) # {}
       /\ DOMAIN data[m].label # {} /\ LiveLabels(m) = {} /\ LinesOf(m) = {}

\* C5: a histogram or summary family contributes no line to the output,
\* whatever the counters of its series.
C5_UnsupportedTypeExcluded ==
  pc = "respond" =>
    \A n \in DOMAIN data :
      data[n].commentType \in {histogram, summary} => LinesOf(n) = {}

\* a declared summary family with a series within the threshold
C5_Witness ==
  /\ pc = "respond"
  /\ \E n \in DOMAIN data :
       data[n].commentType = summary /\ LiveLabels(n) # {} /\ LinesOf(n) = {}

\* C6: a series new to the target is absent from the output of its first
\* scrape and of the scrapes that repeat its value; the scrape that changes
\* the value has the HELP line, the TYPE line and the sample with the new value.
C6_NewSeriesStartsStale ==
  (pc = "respond" /\ InData(watched) /\ Supported(watched[1])) =>
    /\ (hist.first # "no" /\ ~hist.last.nan) => ~Emitted(watched)
    /\ Changed =>
         /\ HelpsOf(watched[1]) # {} /\ TypesOf(watched[1]) # {}
         /\ \E i \in SamplesOf(watched) :
              metricOutput[i].text = FormatFloat(hist.last)

\* C7: after a scrape in which a series' value differs from the one of its
\* previous observation, its unchanged counter is 0.
C7_ChangeResetsCounter ==
  (pc = "respond" /\ InData(watched) /\ "NaN" \notin catalog.texts /\ Changed)
    => StoredRecord(watched).unchangedCounter = 0

\* C8 as stated: after N observations of one value counted from first sight,
\* the counter is N-1.
C8_CounterIsRunMinusOne ==
  (hist.first # "no" /\ hist.run < RunCap)
    => StoredRecord(watched).unchangedCounter = hist.run - 1

\* C8 amended: for a series first seen in the scrape that stored its family,
\* with a value other than NaN, the counter after N observations of that
\* value counted from first sight is staleThreshold + N.
C8_CounterIsThresholdPlusRun ==
  (hist.first = "family" /\ ~hist.last.nan)
    => /\ HasRecord(watched)
       /\ StoredRecord(watched).unchangedCounter = staleThreshold + hist.run

C8_Witness ==
  /\ pc = "respond" /\ InData(watched)
  /\ hist.first = "family" /\ ~hist.last.nan /\ hist.run = 2

\* C9: a failed upstream fetch fails the request only; the process keeps
\* running.
C9_FetchFailureKeepsProcess == pc = "fatal" => running

\* C10: after two requests that were handled concurrently, the store is the
\* one that handling them one after the other, in one of the two orders,
\* produces.
SerialStore(d1, d2) == UpdateAll(UpdateAll(store0, d1, DOMAIN d1), d2, DOMAIN d2)

C10_ConcurrentScrapesSerialize ==
  (\A h \in Handlers : cpc[h] = "done")
    => store \in {SerialStore(cdata[1], cdata[2]), SerialStore(cdata[2], cdata[1])}

(***************************************************************************)
(* Several port pairs (main.go:219-225): one listener goroutine per pair,  *)
(* each with the ScrapeTarget it allocates itself (main.go:233).  Requests *)
(* to different targets are handled in any interleaving.                   *)
(***************************************************************************)
MultiCatalog ==
  [series |-> {<<"foo", "">>}, preambles |-> {"gauge"}, texts |-> {"0", "5"}]

\* every listener's handler bound to the first listener's ScrapeTarget
MutTargetShared(t) == CHOOSE u \in Targets : \A v \in Targets : u <= v

\* main.go:233-234: the handler registered by listener t is a method value of
\* the ScrapeTarget allocated by that same call.
TargetOf(t) == IF t \in Targets THEN t ELSE 0

InitMulti ==
  /\ catalog = MultiCatalog
  /\ InitHandlers
  /\ watched \in catalog.series
  /\ running = TRUE
  /\ store = EmptyData
  /\ pc = "idle"
  /\ data = EmptyData
  /\ metricOutput = <<>>
  /\ status = "none"
  /\ body = <<>>
  /\ hist = NoHist

\* main.go:61-199 on target t, fetch succeeds, update does not panic
TScrape(t, text) ==
  /\ running /\ tpc[t] = "idle"
  /\ LET own == TargetOf(t)
         d == Parse(text)
         st == UpdateAll(tstore[own], d, DOMAIN d)
     IN /\ PanicNames(tstore[own], d) = {}
        /\ WithinBound(st)
        /\ tstore' = [tstore EXCEPT ![own] = st]
        /\ tdata' = [tdata EXCEPT ![t] = Aliased(tstore[own], st, d, DOMAIN d)]
        /\ \E famOrder \in Orders(DOMAIN d), labOrder \in LabelOrders(d) :
              tout' = [tout EXCEPT ![t] = Serialize(st, tdata'[t], famOrder, labOrder)]
  /\ tpc' = [tpc EXCEPT ![t] = "respond"]
  /\ UNCHANGED <<catalog, running, store, pc, data, metricOutput, watched, hist,
                 status, body, cvars>>

\* main.go:61-168 on target t, the update panics (main.go:157,164)
TScrapePanic(t, text) ==
  /\ running /\ tpc[t] = "idle"
  /\ LET own == TargetOf(t)
         d == Parse(text)
         bad == PanicNames(tstore[own], d)
     IN /\ bad # {}
        /\ \E done \in SUBSET ((DOMAIN d) \ bad) :
             LET st == UpdateAll(tstore[own], d, done)
             IN /\ WithinBound(st)
                /\ tstore' = [tstore EXCEPT ![own] = st]
                /\ tdata' = [tdata EXCEPT ![t] = Aliased(tstore[own], st, d, done)]
  /\ tout' = [tout EXCEPT ![t] = <<>>]
  /\ tpc' = [tpc EXCEPT ![t] = "panicked"]
  /\ UNCHANGED <<catalog, running, store, pc, data, metricOutput, watched, hist,
                 status, body, cvars>>

\* main.go:199-200 on target t, or net/http recovering its panic
TReturn(t) ==
  /\ running /\ tpc[t] \in {"respond", "panicked"}
  /\ tpc' = [tpc EXCEPT ![t] = "idle"]
  /\ tdata' = [tdata EXCEPT ![t] = EmptyData]
  /\ tout' = [tout EXCEPT ![t] = <<>>]
  /\ UNCHANGED <<catalog, running, store, pc, data, metricOutput, watched, hist,
                 status, body, cvars, tstore>>

\* main.go:62-69 on target t: log.Fatalln exits the one process of all targets
TFetchFail(t) ==
  /\ running /\ tpc[t] = "idle"
  /\ running' = FALSE
  /\ UNCHANGED <<catalog, store, pc, data, metricOutput, watched, hist,
                 status, body, cvars, tvars>>

NextMulti ==
  \/ \E t \in Targets, text \in Bodies(catalog) : TScrape(t, text)
  \/ \E t \in Targets, text \in Bodies(catalog) : TScrapePanic(t, text)
  \/ \E t \in Targets : TReturn(t)
  \/ \E t \in Targets : TFetchFail(t)

SpecMulti == InitMulti /\ [][NextMulti]_vars

\* C11: a step of the handler of one target leaves the records, the parsed
\* payload and the output of every other target as they were, and the output
\* a handler produces is a serialization of its own target's records and of
\* its own payload, whatever the other targets' handlers are doing.
C11_TargetsAreIsolated ==
  [][\A t \in Targets :
       /\ tpc'[t] = tpc[t] =>
            (tstore'[t] = tstore[t] /\ tdata'[t] = tdata[t] /\ tout'[t] = tout[t])
       /\ (tpc[t] = "idle" /\ tpc'[t] = "respond") =>
            \E famOrder \in Orders(DOMAIN tdata'[t]), labOrder \in LabelOrders(tdata'[t]) :
               tout'[t] = Serialize(tstore'[t], tdata'[t], famOrder, labOrder)]_vars

\* both handlers are about to respond, each from records the other lacks
C11_Witness ==
  /\ \A t \in Targets : tpc[t] = "respond" /\ tout[t] # <<>>
  /\ tstore[1] # tstore[2]
  /\ tout[1] # tout[2]

\* The output of this scrape parsed again (main.go:79-127) and serialized
\* again (main.go:170-199) against the same records, in every order in which
\* Go may range over the maps.
Reparsed == Parse(metricOutput)
Reserialized ==
  {Serialize(store, Reparsed, famOrder, labOrder) :
     famOrder \in Orders(DOMAIN Reparsed), labOrder \in LabelOrders(Reparsed)}
LineSet(text) == {text[i] : i \in DOMAIN text}

C14_FirstSightIsSuppressed ==
  (/\ pc = "respond" /\ InData(watched) /\ Supported(watched[1])
   /\ hist.run = 1 /\ hist.first \in {"family", "label"} /\ ~hist.last.nan)
    => ~Emitted(watched)

\* C15: a series in the payload of a counter, gauge or untyped family is in
\* the output exactly when its counter, after this scrape's update, is at
\* most staleThreshold.
C15_EmittedIffWithinThreshold ==
  pc = "respond" =>
    \A n \in DOMAIN data : \A l \in DOMAIN data[n].label :
      Supported(n) =>
        (Emitted(<<n, l>>) <=> StoredRecord(<<n, l>>).unchangedCounter <= staleThreshold)

\* one payload with a series at the threshold, emitted, and a series one
\* above it, suppressed
C15_Witness ==
  /\ pc = "respond"
  /\ \E n \in DOMAIN data : \E l \in DOMAIN data[n].label :
       /\ Supported(n) /\ Emitted(<<n, l>>)
       /\ StoredRecord(<<n, l>>).unchangedCounter = staleThreshold
  /\ \E n \in DOMAIN data : \E l \in DOMAIN data[n].label :
       /\ Supported(n) /\ ~Emitted(<<n, l>>)
       /\ StoredRecord(<<n, l>>).unchangedCounter = staleThreshold + 1

\* C16: every request runs parse, update and serialize to the end; none
\* aborts, after whatever payloads came before.
C16_EveryRequestCompletes == pc # "panicked"

\* C17: a step keeps every record; the record of a series that is not in
\* the payload of the scrape is left exactly as it was, so a series that
\* comes back is compared and counted from the record it had.
C17_AbsentRecordsAreKept ==
  [][/\ \A n \in DOMAIN store : n \in DOMAIN store'
     /\ \A s \in Series :
          HasRecord(s) =>
            /\ s[1] \in DOMAIN store' /\ s[2] \in DOMAIN store'[s[1]].label
            /\ ~(s[1] \in DOMAIN data' /\ s[2] \in DOMAIN data'[s[1]].label)
                 => store'[s[1]].label[s[2]] = store[s[1]].label[s[2]]]_vars

\* the second scrape of the watched series, counted from the record its
\* first scrape left, beside the record, as its one scrape left it, of a
\* series that this payload lacks
C17_Witness ==
  /\ pc = "respond" /\ InData(watched)
  /\ hist.first = "family" /\ hist.run = 2
  /\ StoredRecord(watched).unchangedCounter = staleThreshold + 2
  /\ \E s \in Series :
       /\ HasRecord(s) /\ ~InData(s)
       /\ StoredRecord(s).unchangedCounter = staleThreshold + 1

\* C18: in a scrape whose payload has two series A and B of one family, both
\* with a record, the counter of B and whether B is emitted are determined
\* by B's own record and B's own value, the same whatever A's value is.
C18_SiblingChangeIsIndependent ==
  [][(pc = "idle" /\ pc' = "respond") =>
       \A n \in DOMAIN data' : \A a, b \in DOMAIN data'[n].label :
         (a # b /\ HasRecord(<<n, a>>) /\ HasRecord(<<n, b>>)) =>
           LET x == store[n].label[b]
               c == store'[n].label[b].unchangedCounter
           IN /\ c = IF FloatNeq(x.value, data'[n].label[b].value)
                     THEN 0 ELSE x.unchangedCounter + 1
              /\ (\E i \in DOMAIN metricOutput' :
                    /\ metricOutput'[i].kind = "sample"
                    /\ metricOutput'[i].name = n /\ metricOutput'[i].label = b)
                   <=> (data'[n].commentType \in {counter, gauge, untyped}
                        /\ c <= staleThreshold)]_vars

\* the watched series changed and is emitted with counter 0; its sibling,
\* unchanged, was counted up past the threshold and is suppressed
C18_Witness ==
  /\ pc = "respond" /\ InData(watched) /\ Changed /\ Emitted(watched)
  /\ StoredRecord(watched).unchangedCounter = 0
  /\ \E l \in DOMAIN data[watched[1]].label :
       /\ l # watched[2]
       /\ StoredRecord(<<watched[1], l>>).unchangedCounter = staleThreshold + 2
       /\ ~Emitted(<<watched[1], l>>)

\* the payload declares family n with one of the five keywords
RecognizedType(n) == \E i \in DOMAIN body : typePattern(body[i]) /\ body[i].name = n

\* C19: a family of the payload that has no TYPE line with a recognized
\* keyword has the type histogram and no line in the output.
C19_UndeclaredTypeIsHistogram ==
  pc = "respond" =>
    \A n \in DOMAIN data :
      ~RecognizedType(n) => (data[n].commentType = histogram /\ LinesOf(n) = {})

\* a family whose only TYPE line names an unknown kind, with a series within
\* the threshold, and no line of it in the output
C19_Witness ==
  /\ pc = "respond"
  /\ \E n \in DOMAIN data :
       /\ \E i \in DOMAIN body : body[i].kind = "type" /\ body[i].name = n
       /\ ~RecognizedType(n)
       /\ LiveLabels(n) # {}
       /\ LinesOf(n) = {}

(***************************************************************************)
(* The upstream's status code.  http.Get returns a nil error for every     *)
(* response it receives, whatever its status; the handler reads resp.Body  *)
(* and never reads resp.StatusCode (main.go:62-71).                        *)
(***************************************************************************)
Statuses == {"200", "503"}

StatusCatalog ==
  [series |-> {<<"foo", "">>}, preambles |-> {"gauge"}, texts |-> {"0", "5"}]

InitStatus ==
  /\ catalog = StatusCatalog
  /\ InitHandlers
  /\ watched \in catalog.series
  /\ running = TRUE
  /\ store = EmptyData
  /\ pc = "idle"
  /\ data = EmptyData
  /\ metricOutput = <<>>
  /\ status = "none"
  /\ body = <<>>
  /\ hist = NoHist

NextStatus ==
  \/ \E code \in Statuses, text \in Bodies(catalog) : Scrape(code, text)
  \/ \E code \in Statuses, text \in Bodies(catalog) : ScrapePanic(code, text)
  \/ Respond
  \/ Recover
  \/ FetchFail

SpecStatus == InitStatus /\ [][NextStatus]_vars

\* C20: when the upstream answers with a status other than 200, its body is
\* not parsed and the handler does not go on to write a normal response.
C20_Non200AbortsScrape ==
  status \notin {"none", "200"} => (data = EmptyData /\ pc # "respond")

====
